---- MODULE Spec2Model ----
(***************************************************************************)
(* State-machine model of the RTOS kernel in src/p2/os.c (with the types   *)
(* of src/p2/kernel.h): the process table, the dispatcher, the system-call *)
(* loop, the tick ISR and the public task API.                             *)
(*                                                                         *)
(* Not modelled: the bytes of each workSpace and the saved stack pointers  *)
(* (sp, KernelSp, CurrentSp); no modelled decision reads them.  A slot is  *)
(* an index 0..MAXTHREAD-1 and Cp is the index of the slot it points at.   *)
(***************************************************************************)
EXTENDS Integers, FiniteSets, Sequences, TLC

\* Size of the process table (os.c:18); scaled down from the board's value.
MAXTHREAD == 3

Slots == 0 .. (MAXTHREAD - 1)

\* Cp before the first Dispatch (a zero-initialised static pointer, os.c:20).
NoProc == -1

\* Entry points handed to Task_Create, as non-null addresses; 0 is NULL.
Ping == 1
Pong == 2
suspend_pong == 3

\* Two argument lists (f, py, arg) for Task_Create (os.c:363) that differ in
\* every argument, so that a changed code, pri or arg shows.
PingInput == [f |-> Ping, py |-> 10, arg |-> 210]
PongInput == [f |-> Pong, py |-> 5, arg |-> 205]
\* The creation arguments of the scheduling specification (Spec) and of the
\* creation specification (SpecCreate).
OneInput == {PingInput}
CreateInputs == {PingInput, PongInput}

\* Every entry point a lookup may be asked about.
FuncPtrs == {Ping, Pong, suspend_pong}

\* PIDs passed to Task_Suspend / Task_Resume: 0 is reserved, 1 is the first
\* PID assigned.  SpecCreate and SpecLive pass 1 only.
PidArgs == {0, 1}
OnePid == {1}

\* Tick counts passed to Task_Sleep.  SpecCreate passes 1 only.
SleepArgs == {1, 2}
OneTick == {1}

VARIABLES
    Process,        \* os.c:18   the process descriptors
    Cp,             \* os.c:20   slot of the current task
    NextP,          \* os.c:23   rotation cursor of Dispatch
    KernelActive,   \* os.c:24
    Tasks,          \* os.c:25
    last_PID,       \* os.c:26
    err,            \* os.c:27
    IntrEnabled,    \* the global interrupt flag (cli / sei, kernel.h:24-25)
    pc,             \* where control is: boot, task, create_ret, dispatch, found
    i,              \* os.c:87   local counter of Dispatch
    \* History, written by no code and read by no action:
    sleepT,         \* per SLEEPING slot, the t its task passed to Task_Sleep
    slept,          \* per SLEEPING slot, the tick-ISR invocations since it fell asleep
    passed,         \* per READY slot, the slots dispatched since it became READY
    created         \* the slots taken out of DEAD so far: the successful creations

vars == <<Process, Cp, NextP, KernelActive, Tasks, last_PID, err,
          IntrEnabled, pc, i, sleepT, slept, passed, created>>

\* memset(&Process[x], 0, sizeof(PD)); Process[x].state = DEAD  (os.c:338-339)
ZeroPD ==
    [pid |-> 0, pri |-> 0, state |-> "DEAD", request |-> "NONE",
     request_arg |-> 0, arg |-> 0, code |-> 0]

\* OS_Init (os.c:327-341) plus the static initialisers (os.c:20, 26, 27).
Init ==
    /\ Process = [x \in Slots |-> ZeroPD]
    /\ Cp = NoProc
    /\ NextP = 0
    /\ KernelActive = FALSE
    /\ Tasks = 0
    /\ last_PID = 0
    /\ err = "NO_ERR"
    /\ IntrEnabled = FALSE
    /\ pc = "boot"
    /\ i = 0
    /\ sleepT = [x \in Slots |-> 0]
    /\ slept = [x \in Slots |-> 0]
    /\ passed = [x \in Slots |-> {}]
    /\ created = 0

----------------------------------------------------------------------------
\* Kernel helpers

Min(S) == CHOOSE x \in S : \A y \in S : x <= y

\* findProcessByPID (os.c:35-47) on the table P: the first slot whose pid field
\* equals pid, whatever its state; NoProc stands for NULL.
findProcessByPID(P, pid) ==
    LET hit == {x \in Slots : P[x].pid = pid}
    IN  IF hit = {} THEN NoProc ELSE Min(hit)

\* findPIDByFuncPtr (os.c:49-61): the pid of the first slot whose code field
\* equals f, whatever its state; -1 if there is none.
findPIDByFuncPtr(f) ==
    LET hit == {x \in Slots : Process[x].code = f}
    IN  IF hit = {} THEN -1 ELSE Process[Min(hit)].pid

\* The slot the scan of Kernel_Create_Task stops at (os.c:130-131): the first
\* DEAD slot of P, or MAXTHREAD when the loop runs to its end.
FirstDead(P) ==
    LET dead == {x \in Slots : P[x].state = "DEAD"}
    IN  IF dead = {} THEN MAXTHREAD ELSE Min(dead)

\* A descriptor whose pid is the slot's old pid plus one rather than ++last_PID.
CreatedPD_PidPerSlot(f, py, arg, old) ==
    [old EXCEPT !.pid = old.pid + 1, !.pri = py, !.arg = arg,
                !.request = "NONE", !.state = "READY", !.code = f]

\* The descriptor built at os.c:164-171 over the slot's old contents.
CreatedPD(f, py, arg, old) ==
    [old EXCEPT !.pid = last_PID + 1, !.pri = py, !.arg = arg,
                !.request = "NONE", !.state = "READY", !.code = f]

\* A capacity test that is off by one: it lets one creation too many through.
Kernel_Create_Task_OffByOne(P, f, py, arg) ==
    IF Tasks > MAXTHREAD
    THEN [P |-> P, Tasks |-> Tasks, last_PID |-> last_PID, err |-> "MAX_PROCESS_ERR"]
    ELSE LET x == FirstDead(P)
         IN  [P        |-> IF x \in Slots
                           THEN [P EXCEPT ![x] = CreatedPD(f, py, arg, P[x])]
                           ELSE P,
              Tasks    |-> Tasks + 1,
              last_PID |-> last_PID + 1,
              err      |-> "NO_ERR"]

\* Kernel_Create_Task (os.c:112-175) applied to the table P: the new values
\* of Process, Tasks, last_PID and err.  A scan that ends at MAXTHREAD would
\* write past the table; the model then leaves the table as it is.
Kernel_Create_Task(P, f, py, arg) ==
    IF Tasks = MAXTHREAD
    THEN [P |-> P, Tasks |-> Tasks, last_PID |-> last_PID, err |-> "MAX_PROCESS_ERR"]
    ELSE LET x == FirstDead(P)
         IN  [P        |-> IF x \in Slots
                           THEN [P EXCEPT ![x] = CreatedPD(f, py, arg, P[x])]
                           ELSE P,
              Tasks    |-> Tasks + 1,
              last_PID |-> last_PID + 1,
              err      |-> "NO_ERR"]

\* A suspend that does not test the state of its target.
Kernel_Suspend_Task_NoStateTest(P, c) ==
    LET p == findProcessByPID(P, P[c].request_arg)
    IN  IF p = NoProc
        THEN [P |-> P, err |-> "PID_NOT_FOUND_ERR"]
        ELSE [P |-> [P EXCEPT ![p].state = "SUSPENDED"], err |-> "NO_ERR"]

\* Kernel_Suspend_Task (os.c:178-205) applied to the table P for the
\* requester c: the new values of Process and err.
Kernel_Suspend_Task(P, c) ==
    LET p == findProcessByPID(P, P[c].request_arg)
    IN  IF p = NoProc
        THEN [P |-> P, err |-> "PID_NOT_FOUND_ERR"]
        ELSE IF P[p].state # "READY"
        THEN [P |-> P, err |-> "SUSPEND_NONRUNNING_TASK_ERR"]
        ELSE [P |-> [P EXCEPT ![p].state = "SUSPENDED"], err |-> "NO_ERR"]

\* A resume that does not test the state of its target.
Kernel_Resume_Task_NoStateTest(P, c) ==
    LET p == findProcessByPID(P, P[c].request_arg)
    IN  IF p = NoProc
        THEN [P |-> P, err |-> "PID_NOT_FOUND_ERR"]
        ELSE [P |-> [P EXCEPT ![p].state = "READY"], err |-> "NO_ERR"]

\* Kernel_Resume_Task (os.c:207-234), likewise.
Kernel_Resume_Task(P, c) ==
    LET p == findProcessByPID(P, P[c].request_arg)
    IN  IF p = NoProc
        THEN [P |-> P, err |-> "PID_NOT_FOUND_ERR"]
        ELSE IF P[p].state # "SUSPENDED"
        THEN [P |-> P, err |-> "RESUME_NONSUSPENDED_TASK_ERR"]
        ELSE [P |-> [P EXCEPT ![p].state = "READY"], err |-> "NO_ERR"]

\* The tail of Task_Create (os.c:382-390): the value it returns.
CreateResult(e, last) == IF e = "MAX_PROCESS_ERR" THEN 0 ELSE last

\* A yield that forgets to mark the caller READY.
StateAfter_YieldKeepsRunning(request) ==
    CASE request = "TERMINATE" -> "DEAD"
      [] request = "SLEEP" -> "SLEEPING"
      [] request \in {"YIELD", "NONE"} -> "RUNNING"

\* A SLEEP case that leaves the caller READY, as the yield does.
StateAfter_SleepAsYield(request) ==
    CASE request = "TERMINATE" -> "DEAD"
      [] request \in {"SLEEP", "YIELD", "NONE"} -> "READY"

\* The state a task is left in by the dispatching cases of the switch in
\* Next_Kernel_Request (os.c:270-292).
StateAfter(request) ==
    CASE request = "TERMINATE" -> "DEAD"
      [] request = "SLEEP" -> "SLEEPING"
      [] request \in {"YIELD", "NONE"} -> "READY"

----------------------------------------------------------------------------
\* The history variables after a step that took Process to Process'.
\* dispatched: the slot Dispatch has just made RUNNING (os.c:103-105), or
\* NoProc; t: the argument of the Task_Sleep call of Cp (os.c:463), or 0;
\* ticked: the step is one run of the tick ISR (os.c:68-82).
Track(dispatched, t, ticked) ==
    /\ passed' = [x \in Slots |->
          IF Process[x].state = "READY" /\ Process'[x].state = "READY"
          THEN IF dispatched \in Slots THEN passed[x] \cup {dispatched} ELSE passed[x]
          ELSE {}]
    /\ sleepT' = [x \in Slots |->
          IF t > 0 /\ x = Cp THEN t
          ELSE IF ticked /\ Process[x].state = "SLEEPING" /\ Process'[x].state # "SLEEPING"
          THEN 0 ELSE sleepT[x]]
    /\ slept' = [x \in Slots |->
          IF t > 0 /\ x = Cp THEN 0
          ELSE IF ticked /\ Process[x].state = "SLEEPING"
          THEN IF Process'[x].state = "SLEEPING" THEN slept[x] + 1 ELSE 0
          ELSE slept[x]]
    /\ created' = created + Cardinality({x \in Slots :
          Process[x].state = "DEAD" /\ Process'[x].state # "DEAD"})

NoTrack == Track(NoProc, 0, FALSE)

----------------------------------------------------------------------------
\* Before OS_Start: main's calls

\* Task_Create with the kernel inactive (os.c:363-391, the else branch).
Task_Create_Boot(inp) ==
    /\ pc = "boot"
    /\ ~KernelActive
    /\ LET r == Kernel_Create_Task(Process, inp.f, inp.py, inp.arg)
       IN  /\ Process' = r.P
           /\ Tasks' = r.Tasks
           /\ last_PID' = r.last_PID
           /\ err' = r.err
    /\ UNCHANGED <<Cp, NextP, KernelActive, IntrEnabled, pc, i>>
    /\ NoTrack

\* An early return that reports success instead of the error.
KernelInactive_ClearsErr ==
    /\ pc = "boot"
    /\ ~KernelActive
    /\ err' = "NO_ERR"
    /\ UNCHANGED <<Process, Cp, NextP, KernelActive, Tasks, last_PID,
                   IntrEnabled, pc, i>>
    /\ NoTrack

\* The early return shared by Task_Terminate, Task_Yield, Task_Suspend,
\* Task_Resume and Task_Sleep when the kernel is inactive (os.c:397-400,
\* 410-413, 427-430, 442-445, 457-460).
KernelInactive ==
    /\ pc = "boot"
    /\ ~KernelActive
    /\ err' = "KERNEL_INACTIVE_ERR"
    /\ UNCHANGED <<Process, Cp, NextP, KernelActive, Tasks, last_PID,
                   IntrEnabled, pc, i>>
    /\ NoTrack

\* The five calls made by main before OS_Start; their arguments are not read.
Task_Terminate_Boot == KernelInactive
Task_Yield_Boot == KernelInactive
Task_Suspend_Boot(p) == KernelInactive
Task_Resume_Boot(p) == KernelInactive
Task_Sleep_Boot(t) == KernelInactive

\* OS_Start (os.c:344-360) up to the entry of Dispatch (os.c:246, 87).
\* With no task created it returns and nothing changes.
OS_Start ==
    /\ pc = "boot"
    /\ ~KernelActive
    /\ Tasks > 0
    /\ IntrEnabled' = FALSE
    /\ KernelActive' = TRUE
    /\ pc' = "dispatch"
    /\ i' = 0
    /\ UNCHANGED <<Process, Cp, NextP, Tasks, last_PID, err>>
    /\ NoTrack

----------------------------------------------------------------------------
\* The tick ISR (os.c:68-82).  It runs only while interrupts are enabled and
\* after OS_Start has started the timer (os.c:351).
\* A tick that wakes a sleeper one tick early.
TickPD_WakesEarly(p) ==
    IF p.state = "SLEEPING"
    THEN [p EXCEPT !.request_arg = p.request_arg - 1,
                   !.state = IF p.request_arg - 1 <= 1 THEN "READY" ELSE "SLEEPING"]
    ELSE p

\* A tick without the test for SLEEPING: every slot is counted down.
TickPD_NoStateTest(p) ==
    [p EXCEPT !.request_arg = p.request_arg - 1,
              !.state = IF p.request_arg - 1 <= 0 THEN "READY" ELSE p.state]

\* A tick that counts a SUSPENDED slot down as if it slept.
TickPD_WakesSuspended(p) ==
    IF p.state \in {"SLEEPING", "SUSPENDED"}
    THEN [p EXCEPT !.request_arg = p.request_arg - 1,
                   !.state = IF p.request_arg - 1 <= 0 THEN "READY" ELSE p.state]
    ELSE p

\* One slot under the tick ISR (os.c:75-80).
TickPD(p) ==
    IF p.state = "SLEEPING"
    THEN [p EXCEPT !.request_arg = p.request_arg - 1,
                   !.state = IF p.request_arg - 1 <= 0 THEN "READY" ELSE "SLEEPING"]
    ELSE p

Tick ==
    /\ KernelActive
    /\ IntrEnabled
    /\ Process' = [x \in Slots |-> TickPD(Process[x])]
    /\ UNCHANGED <<Cp, NextP, KernelActive, Tasks, last_PID, err,
                   IntrEnabled, pc, i>>
    /\ Track(NoProc, 0, TRUE)

----------------------------------------------------------------------------
\* Exit_Kernel (declared kernel.h:78, defined in the context-switch assembly):
\* it restores the task's machine state; a task runs with interrupts enabled.
Exit_Kernel == IntrEnabled' = TRUE

----------------------------------------------------------------------------
\* Dispatch (os.c:85-109)

\* A search that never enables interrupts, however long it has swept.
DispatchLoop_NeverEnables ==
    /\ pc = "dispatch"
    /\ Process[NextP].state # "READY"
    /\ NextP' = (NextP + 1) % MAXTHREAD
    /\ i' = IF i > MAXTHREAD THEN i ELSE i + 1
    /\ UNCHANGED <<Process, Cp, KernelActive, Tasks, last_PID, err, pc,
                   IntrEnabled>>
    /\ NoTrack

\* One pass of the while loop whose test succeeds (os.c:90-97).  Once i has
\* passed MAXTHREAD interrupts stay enabled and i is read no more, so the
\* model stops counting there.
DispatchLoop ==
    /\ pc = "dispatch"
    /\ Process[NextP].state # "READY"
    /\ NextP' = (NextP + 1) % MAXTHREAD
    /\ i' = IF i > MAXTHREAD THEN i ELSE i + 1
    /\ IntrEnabled' = (IntrEnabled \/ (i + 1 > MAXTHREAD))
    /\ UNCHANGED <<Process, Cp, KernelActive, Tasks, last_PID, err, pc>>
    /\ NoTrack

\* A loop test that also stops at a SLEEPING slot.
DispatchFound_TakesSleeping ==
    /\ pc = "dispatch"
    /\ Process[NextP].state \in {"READY", "SLEEPING"}
    /\ pc' = "found"
    /\ UNCHANGED <<Process, Cp, NextP, KernelActive, Tasks, last_PID, err,
                   IntrEnabled, i>>
    /\ NoTrack

\* The loop test fails: Process[NextP] is READY (os.c:90).
DispatchFound ==
    /\ pc = "dispatch"
    /\ Process[NextP].state = "READY"
    /\ pc' = "found"
    /\ UNCHANGED <<Process, Cp, NextP, KernelActive, Tasks, last_PID, err,
                   IntrEnabled, i>>
    /\ NoTrack

\* The cursor Dispatch leaves behind (os.c:108), given the chosen slot.
\* Without the advance the next dispatch starts at the task just chosen.
NextAfter_NoAdvance(chosen) == chosen

NextAfter(chosen) == (chosen + 1) % MAXTHREAD

\* os.c:100-108, then the head of the kernel loop (os.c:252-257): the
\* request field of the chosen task is cleared and Exit_Kernel resumes it
\* with interrupts enabled.
DispatchLoad ==
    /\ pc = "found"
    /\ Cp' = NextP
    /\ Process' = [Process EXCEPT ![NextP].state = "RUNNING",
                                  ![NextP].request = "NONE"]
    /\ NextP' = NextAfter(NextP)
    /\ Exit_Kernel
    /\ pc' = "task"
    /\ i' = 0
    /\ UNCHANGED <<KernelActive, Tasks, last_PID, err>>
    /\ Track(NextP, 0, FALSE)

----------------------------------------------------------------------------
\* The task API called by the running task.  Each call disables interrupts,
\* fills the request fields of Cp and enters the kernel, whose switch
\* (os.c:264-298) handles the request before any interrupt can be taken: one
\* action per call, from the call to the next point where interrupts are
\* enabled or Dispatch is entered.

\* A non-dispatching request after which the caller is no longer RUNNING, as
\* if the case had fallen through to the yield.
ResumeCaller_MarksReady(P) == [P EXCEPT ![Cp].request = "NONE", ![Cp].state = "READY"]

\* A request that does not dispatch: the loop head (os.c:252-257) clears
\* Cp->request and Exit_Kernel resumes the caller with interrupts enabled.
ResumeCaller(P) == [P EXCEPT ![Cp].request = "NONE"]

\* A request that dispatches (os.c:270-273, 283-292): Cp gets its new state
\* and Dispatch is entered with interrupts still disabled.
EnterDispatch(P, t) ==
    /\ Process' = [P EXCEPT ![Cp].state = StateAfter(P[Cp].request)]
    /\ IntrEnabled' = FALSE
    /\ pc' = "dispatch"
    /\ i' = 0
    /\ UNCHANGED <<Cp, NextP, KernelActive, Tasks, last_PID, err>>
    /\ Track(NoProc, t, FALSE)

\* Task_Create with the kernel active (os.c:366-377) and case CREATE
\* (os.c:266-268); the caller is resumed inside Task_Create.
Task_Create(inp) ==
    /\ pc = "task"
    /\ KernelActive
    /\ LET P == [Process EXCEPT ![Cp].pri = inp.py, ![Cp].arg = inp.arg,
                                ![Cp].request = "CREATE", ![Cp].code = inp.f]
           r == Kernel_Create_Task(P, P[Cp].code, P[Cp].pri, P[Cp].arg)
       IN  /\ Process' = ResumeCaller(r.P)
           /\ Tasks' = r.Tasks
           /\ last_PID' = r.last_PID
           /\ err' = r.err
    /\ Exit_Kernel
    /\ pc' = "create_ret"
    /\ UNCHANGED <<Cp, NextP, KernelActive, i>>
    /\ NoTrack

\* Task_Create after the kernel has resumed it (os.c:382-390).
Task_Create_Return ==
    /\ pc = "create_ret"
    /\ pc' = "task"
    /\ UNCHANGED <<Process, Cp, NextP, KernelActive, Tasks, last_PID, err,
                   IntrEnabled, i>>
    /\ NoTrack

\* Task_Terminate (os.c:395-405) and case TERMINATE (os.c:270-273).
Task_Terminate ==
    /\ pc = "task"
    /\ KernelActive
    /\ EnterDispatch([Process EXCEPT ![Cp].request = "TERMINATE"], 0)

\* Task_Yield (os.c:408-418) and case YIELD (os.c:288-292).
Task_Yield ==
    /\ pc = "task"
    /\ KernelActive
    /\ EnterDispatch([Process EXCEPT ![Cp].request = "YIELD"], 0)

\* Task_Suspend (os.c:425-438) and case SUSPEND (os.c:275-277).
Task_Suspend(p) ==
    /\ pc = "task"
    /\ KernelActive
    /\ LET P == [Process EXCEPT ![Cp].request = "SUSPEND", ![Cp].request_arg = p]
           r == Kernel_Suspend_Task(P, Cp)
       IN  /\ Process' = ResumeCaller(r.P)
           /\ err' = r.err
    /\ Exit_Kernel
    /\ UNCHANGED <<Cp, NextP, KernelActive, Tasks, last_PID, pc, i>>
    /\ NoTrack

\* Task_Resume (os.c:440-453) and case RESUME (os.c:279-281).
Task_Resume(p) ==
    /\ pc = "task"
    /\ KernelActive
    /\ LET P == [Process EXCEPT ![Cp].request = "RESUME", ![Cp].request_arg = p]
           r == Kernel_Resume_Task(P, Cp)
       IN  /\ Process' = ResumeCaller(r.P)
           /\ err' = r.err
    /\ Exit_Kernel
    /\ UNCHANGED <<Cp, NextP, KernelActive, Tasks, last_PID, pc, i>>
    /\ NoTrack

\* Task_Sleep (os.c:455-468) and case SLEEP (os.c:283-286).
Task_Sleep(t) ==
    /\ pc = "task"
    /\ KernelActive
    /\ EnterDispatch([Process EXCEPT ![Cp].request_arg = t, ![Cp].request = "SLEEP"], t)

----------------------------------------------------------------------------
\* The scheduling specification: every request, with one entry point.
Next ==
    \/ \E inp \in OneInput : Task_Create_Boot(inp)
    \/ Task_Terminate_Boot
    \/ Task_Yield_Boot
    \/ \E p \in PidArgs : Task_Suspend_Boot(p)
    \/ \E p \in PidArgs : Task_Resume_Boot(p)
    \/ \E t \in SleepArgs : Task_Sleep_Boot(t)
    \/ OS_Start
    \/ Tick
    \/ DispatchLoop
    \/ DispatchFound
    \/ DispatchLoad
    \/ \E inp \in OneInput : Task_Create(inp)
    \/ Task_Create_Return
    \/ Task_Terminate
    \/ Task_Yield
    \/ \E p \in PidArgs : Task_Suspend(p)
    \/ \E p \in PidArgs : Task_Resume(p)
    \/ \E t \in SleepArgs : Task_Sleep(t)

Spec == Init /\ [][Next]_vars

\* The creation specification: every request, with two entry points and one
\* argument for Suspend, Resume and Sleep.
NextCreate ==
    \/ \E inp \in CreateInputs : Task_Create_Boot(inp)
    \/ Task_Terminate_Boot
    \/ Task_Yield_Boot
    \/ \E p \in OnePid : Task_Suspend_Boot(p)
    \/ \E p \in OnePid : Task_Resume_Boot(p)
    \/ \E t \in OneTick : Task_Sleep_Boot(t)
    \/ OS_Start
    \/ Tick
    \/ DispatchLoop
    \/ DispatchFound
    \/ DispatchLoad
    \/ \E inp \in CreateInputs : Task_Create(inp)
    \/ Task_Create_Return
    \/ Task_Terminate
    \/ Task_Yield
    \/ \E p \in OnePid : Task_Suspend(p)
    \/ \E p \in OnePid : Task_Resume(p)
    \/ \E t \in OneTick : Task_Sleep(t)

SpecCreate == Init /\ [][NextCreate]_vars

\* The progress specification: every request, with one entry point and one
\* argument for Suspend and Resume, and the progress the machine gives: the
\* processor keeps executing Dispatch once it has entered it (os.c:85-109),
\* and the timer started by OS_Start (os.c:351, 309-324) keeps raising its
\* interrupt, which is taken whenever interrupts are enabled.  A task is not
\* obliged to make another call.
NextLive ==
    \/ \E inp \in OneInput : Task_Create_Boot(inp)
    \/ Task_Terminate_Boot
    \/ Task_Yield_Boot
    \/ \E p \in OnePid : Task_Suspend_Boot(p)
    \/ \E p \in OnePid : Task_Resume_Boot(p)
    \/ \E t \in SleepArgs : Task_Sleep_Boot(t)
    \/ OS_Start
    \/ Tick
    \/ DispatchLoop
    \/ DispatchFound
    \/ DispatchLoad
    \/ \E inp \in OneInput : Task_Create(inp)
    \/ Task_Create_Return
    \/ Task_Terminate
    \/ Task_Yield
    \/ \E p \in OnePid : Task_Suspend(p)
    \/ \E p \in OnePid : Task_Resume(p)
    \/ \E t \in SleepArgs : Task_Sleep(t)

SpecLive ==
    /\ Init
    /\ [][NextLive]_vars
    /\ WF_vars(DispatchLoop \/ DispatchFound \/ DispatchLoad)
    /\ WF_vars(Tick)

----------------------------------------------------------------------------
\* Properties

Live == {x \in Slots : Process[x].state # "DEAD"}
DeadSlots == {x \in Slots : Process[x].state = "DEAD"}
Running == {x \in Slots : Process[x].state = "RUNNING"}
TaskExecuting == pc \in {"task", "create_ret"}

\* A step of Task_Create, made by main before OS_Start or by the running task.
CreateStep(inp) == Task_Create_Boot(inp) \/ Task_Create(inp)

\* C1: while a task executes exactly one slot is RUNNING and Cp designates
\* it; at no time are two slots RUNNING.
C1_OneRunning ==
    /\ Cardinality(Running) <= 1
    /\ TaskExecuting => (Cp \in Slots /\ Running = {Cp})

\* C1 witness: a task executes while another is READY and a third is not
\* runnable, after a dispatch.
C1_Witness ==
    /\ pc = "task"
    /\ Running = {Cp}
    /\ \E x \in Slots : Process[x].state = "READY"
    /\ \E x \in Slots : Process[x].state \in {"SUSPENDED", "SLEEPING"}

\* C2: at every kernel-loop iteration boundary and after every pre-start
\* creation, Tasks equals the number of slots that are not DEAD.
C2_TasksCountsLive ==
    (pc \in {"boot", "task"}) => (Tasks = Cardinality(Live))

\* C3: a creation fails with MAX_PROCESS_ERR only when no slot is DEAD;
\* whenever a slot is DEAD it succeeds and puts the new task, READY, in the
\* lowest DEAD slot.
C3_CreateUsesDeadSlot ==
    [][\A inp \in CreateInputs :
         (CreateStep(inp) /\ DeadSlots # {}) =>
            /\ err' = "NO_ERR"
            /\ Process'[Min(DeadSlots)].state = "READY"
            /\ Process'[Min(DeadSlots)].code = inp.f]_vars

\* C4: with every slot non-DEAD, Task_Create returns 0, sets MAX_PROCESS_ERR
\* and leaves pid, state, pri, arg and code of every slot, Tasks and last_PID
\* as they were, before the kernel starts and when a running task calls it.
C4_FullCreateIsNoOp ==
    [][\A inp \in CreateInputs :
         (CreateStep(inp) /\ DeadSlots = {}) =>
            /\ err' = "MAX_PROCESS_ERR"
            /\ CreateResult(err', last_PID') = 0
            /\ Tasks' = Tasks
            /\ last_PID' = last_PID
            /\ \A x \in Slots :
                 /\ Process'[x].pid = Process[x].pid
                 /\ Process'[x].state = Process[x].state
                 /\ Process'[x].pri = Process[x].pri
                 /\ Process'[x].arg = Process[x].arg
                 /\ Process'[x].code = Process[x].code]_vars

\* C5: the pids of live slots are pairwise distinct and lie in 1..last_PID,
\* and every creation gives the new task a pid above every pid assigned
\* before, also in a reused slot.
C5_PidsOfLive ==
    /\ \A x \in Live : Process[x].pid >= 1 /\ Process[x].pid <= last_PID
    /\ \A x, y \in Live : x # y => Process[x].pid # Process[y].pid

C5_NewPidAbove ==
    /\ last_PID' >= last_PID
    /\ \A x \in Slots :
         (Process[x].state = "DEAD" /\ Process'[x].state # "DEAD") =>
            /\ Process'[x].pid = last_PID'
            /\ Process'[x].pid > last_PID
            /\ \A y \in Slots : Process'[x].pid > Process[y].pid

C5_PidsIncrease == []C5_PidsOfLive /\ [][C5_NewPidAbove]_vars

\* C5 witness: slot 0, first given pid 1, holds a live task with a later pid:
\* the slot of a terminated task has been reused.
C5_Witness ==
    /\ Process[0].state # "DEAD"
    /\ Process[0].pid > 1
    /\ Cardinality(Live) >= 2

\* C6: Suspend of a READY task B by the running task makes B SUSPENDED with
\* NO_ERR; a second Suspend leaves it SUSPENDED with
\* SUSPEND_NONRUNNING_TASK_ERR; Resume makes it READY with NO_ERR; none of
\* the three changes the state of another slot.
OthersKeepState(b) ==
    \A x \in Slots \ {b} : Process'[x].state = Process[x].state

C6_SuspendResume ==
    [][\A p \in PidArgs, b \in Slots :
         (p >= 1 /\ Process[b].pid = p /\ b # Cp) =>
            /\ (Task_Suspend(p) /\ Process[b].state = "READY") =>
                  /\ Process'[b].state = "SUSPENDED"
                  /\ err' = "NO_ERR"
                  /\ OthersKeepState(b)
            /\ (Task_Suspend(p) /\ Process[b].state = "SUSPENDED") =>
                  /\ Process'[b].state = "SUSPENDED"
                  /\ err' = "SUSPEND_NONRUNNING_TASK_ERR"
                  /\ OthersKeepState(b)
            /\ (Task_Resume(p) /\ Process[b].state = "SUSPENDED") =>
                  /\ Process'[b].state = "READY"
                  /\ err' = "NO_ERR"
                  /\ OthersKeepState(b)]_vars

\* C6 witness: the running task has just suspended an already SUSPENDED task
\* a second time.
C6_Witness ==
    /\ pc = "task"
    /\ err = "SUSPEND_NONRUNNING_TASK_ERR"
    /\ \E b \in Slots \ {Cp} :
         /\ Process[b].state = "SUSPENDED"
         /\ Process[b].pid = Process[Cp].request_arg

\* C7: Suspend or Resume of a p that is the pid of no live task (0, a value
\* never assigned, the pid of a terminated task) sets PID_NOT_FOUND_ERR and
\* changes no slot's state.
C7_UnknownPidNotFound ==
    [][\A p \in PidArgs :
         ((Task_Suspend(p) \/ Task_Resume(p)) /\ \A x \in Live : Process[x].pid # p) =>
            /\ err' = "PID_NOT_FOUND_ERR"
            /\ \A x \in Slots : Process'[x].state = Process[x].state]_vars

\* C8: a task that called Task_Sleep(t), t >= 1, is SLEEPING with remaining
\* count t minus the ticks seen, becomes READY in exactly the t-th tick-ISR
\* invocation, and nothing but the tick ISR changes its state or its count.
C8_SleeperCount ==
    \A x \in Slots :
        Process[x].state = "SLEEPING" =>
            /\ sleepT[x] >= 1
            /\ slept[x] >= 0
            /\ slept[x] < sleepT[x]
            /\ Process[x].request_arg = sleepT[x] - slept[x]

C8_SleeperStep ==
    /\ \A t \in SleepArgs :
         Task_Sleep(t) => /\ Process'[Cp].state = "SLEEPING"
                          /\ Process'[Cp].request_arg = t
    /\ \A x \in Slots :
         Process[x].state = "SLEEPING" =>
            IF Tick
            THEN Process'[x].state =
                    IF slept[x] + 1 = sleepT[x] THEN "READY" ELSE "SLEEPING"
            ELSE /\ Process'[x].state = "SLEEPING"
                 /\ Process'[x].request_arg = Process[x].request_arg

C8_SleepExact == []C8_SleeperCount /\ [][C8_SleeperStep]_vars

\* C8 witness: a task that asked for two ticks has seen one and still sleeps,
\* while a task that slept has been woken by the ISR and waits READY.
C8_Witness ==
    /\ \E x \in Slots :
         Process[x].state = "SLEEPING" /\ sleepT[x] = 2 /\ slept[x] = 1
    /\ \E y \in Slots :
         /\ Process[y].state = "READY"
         /\ Process[y].request = "SLEEP"
         /\ Process[y].request_arg = 0

\* C9: while a slot stays READY no other slot is dispatched twice before it,
\* so at most MAXTHREAD-1 dispatches precede its own; and a task that yields
\* while no other slot is READY is selected again, without an idle sweep.
Dispatched(a) == Process[a].state # "RUNNING" /\ Process'[a].state = "RUNNING"

YielderAlone ==
    /\ pc \in {"dispatch", "found"}
    /\ Cp \in Slots
    /\ Process[Cp].request = "YIELD"
    /\ Process[Cp].state = "READY"
    /\ \A x \in Slots \ {Cp} : Process[x].state # "READY"

C9_BypassBound ==
    /\ \A x \in Slots :
         Process[x].state = "READY" => Cardinality(passed[x]) <= MAXTHREAD - 1
    /\ YielderAlone => (~IntrEnabled /\ i < MAXTHREAD)

C9_DispatchStep ==
    \A a \in Slots :
        Dispatched(a) =>
            /\ \A x \in Slots \ {a} :
                 Process[x].state = "READY" => a \notin passed[x]
            /\ YielderAlone => a = Cp

C9_RoundRobin == []C9_BypassBound /\ [][C9_DispatchStep]_vars

\* C9 witness: a READY slot has seen every other slot dispatched once since
\* it became READY.
C9_Witness ==
    \E x \in Slots :
        /\ Process[x].state = "READY"
        /\ passed[x] = Slots \ {x}

\* C10: after a successful creation with entry point F, not the entry point
\* of a live task before, findPIDByFuncPtr(F) is the new task's pid; for the
\* entry point of no live task it is -1.
C10_NoLiveGivesMinusOne ==
    \A f \in FuncPtrs :
        (\A x \in Live : Process[x].code # f) => findPIDByFuncPtr(f) = -1

C10_CreatedIsFound ==
    \A inp \in CreateInputs :
        (/\ CreateStep(inp)
         /\ err' = "NO_ERR"
         /\ \A x \in Live : Process[x].code # inp.f)
        => findPIDByFuncPtr(inp.f)' = last_PID'

C10_LookupFindsCreated == []C10_NoLiveGivesMinusOne /\ [][C10_CreatedIsFound]_vars

\* C11: Task_Create called by a running task returns the pid of the task that
\* very call created: CREATE is handled without a dispatch, the caller stays
\* RUNNING and current, and until it reads last_PID no other task runs and
\* neither last_PID nor err changes.
C11_CreateHandled ==
    \A inp \in CreateInputs :
        Task_Create(inp) =>
            /\ pc' = "create_ret"
            /\ Cp' = Cp
            /\ NextP' = NextP
            /\ Process'[Cp].state = "RUNNING"
            /\ \A a \in Slots : ~Dispatched(a)
            /\ (err' = "MAX_PROCESS_ERR") => (CreateResult(err', last_PID') = 0)
            /\ (err' # "MAX_PROCESS_ERR") =>
                  \E x \in Slots \ {Cp} :
                     /\ Process[x].state = "DEAD"
                     /\ Process'[x].state = "READY"
                     /\ Process'[x].code = inp.f
                     /\ Process'[x].pid = CreateResult(err', last_PID')
                     /\ \A y \in Slots \ {x} : Process'[y].pid = Process[y].pid

C11_UntilRead ==
    (pc = "create_ret") =>
        /\ Cp' = Cp
        /\ last_PID' = last_PID
        /\ err' = err
        /\ \A a \in Slots : ~Dispatched(a)
        /\ \A x \in Slots : Process'[x].pid = Process[x].pid

C11_AtRead ==
    (pc = "create_ret") =>
        /\ Cp \in Slots
        /\ Running = {Cp}
        /\ err \in {"NO_ERR", "MAX_PROCESS_ERR"}
        /\ (err = "NO_ERR") =>
              \E x \in Slots \ {Cp} :
                 /\ Process[x].pid = CreateResult(err, last_PID)
                 /\ Process[x].state = "READY"
                 /\ Process[x].code = Process[Cp].code

C11_ReturnsCreatedPid ==
    []C11_AtRead /\ [][C11_CreateHandled /\ C11_UntilRead]_vars

\* C11 witness: a running task is about to read last_PID after its call
\* created the last task the table admits, while another task sleeps.
C11_Witness ==
    /\ pc = "create_ret"
    /\ err = "NO_ERR"
    /\ last_PID = MAXTHREAD
    /\ \E x \in Slots \ {Cp} : Process[x].pid = last_PID /\ Process[x].state = "READY"
    /\ \E y \in Slots : Process[y].state = "SLEEPING"

\* C12: before OS_Start each of Task_Yield, Task_Terminate, Task_Suspend,
\* Task_Resume and Task_Sleep sets KERNEL_INACTIVE_ERR and changes no slot,
\* Tasks, last_PID, NextP or KernelActive; KernelActive, once set, is never
\* cleared, and with the kernel active none of the calls sets
\* KERNEL_INACTIVE_ERR.
InactiveCall ==
    \/ Task_Terminate_Boot
    \/ Task_Yield_Boot
    \/ \E p \in PidArgs : Task_Suspend_Boot(p) \/ Task_Resume_Boot(p)
    \/ \E t \in SleepArgs : Task_Sleep_Boot(t)

ActiveCall ==
    \/ Task_Terminate
    \/ Task_Yield
    \/ \E p \in PidArgs : Task_Suspend(p) \/ Task_Resume(p)
    \/ \E t \in SleepArgs : Task_Sleep(t)

C12_CallStep ==
    /\ (~KernelActive /\ InactiveCall) =>
          /\ err' = "KERNEL_INACTIVE_ERR"
          /\ UNCHANGED <<Process, Tasks, last_PID, NextP, KernelActive, Cp>>
    /\ KernelActive => KernelActive'
    /\ (KernelActive /\ err' = "KERNEL_INACTIVE_ERR") => err = "KERNEL_INACTIVE_ERR"
    /\ (KernelActive /\ \E p \in PidArgs : Task_Suspend(p) \/ Task_Resume(p)) =>
          err' # "KERNEL_INACTIVE_ERR"
    /\ ActiveCall => KernelActive

C12_KernelInactiveErr == [][C12_CallStep]_vars

\* C12 witness: a call made before OS_Start has set KERNEL_INACTIVE_ERR, the
\* kernel has started since, and a task has made a call that dispatches:
\* err still holds the value from before the start.
C12_Witness ==
    /\ KernelActive
    /\ err = "KERNEL_INACTIVE_ERR"
    /\ pc = "dispatch"
    /\ Cp \in Slots

\* The slot Dispatch examined k slots before NextP.
Behind(k) == (NextP + MAXTHREAD - k) % MAXTHREAD

\* C13: a Dispatch that completes selects the first slot, in cyclic order
\* from the NextP it was entered with, that is READY when examined; it marks
\* that slot RUNNING, makes Cp designate it and leaves NextP one past it.
\* No slot is marked RUNNING that was not READY when examined.
C13_SkippedNotReady ==
    (pc \in {"dispatch", "found"} /\ ~IntrEnabled) =>
        /\ i <= MAXTHREAD
        /\ \A k \in 1 .. i : Process[Behind(k)].state # "READY"

C13_DispatchStep ==
    /\ (pc # "dispatch" /\ pc' = "dispatch") => (i' = 0 /\ NextP' = NextP)
    /\ DispatchLoop =>
          /\ Process[NextP].state # "READY"
          /\ NextP' = (NextP + 1) % MAXTHREAD
          /\ \A x \in Slots : Process'[x].state = Process[x].state
    /\ DispatchLoad =>
          /\ Process[NextP].state = "READY"
          /\ Process'[NextP].state = "RUNNING"
          /\ Cp' = NextP
          /\ NextP' = (NextP + 1) % MAXTHREAD
          /\ \A x \in Slots \ {NextP} : Process'[x].state = Process[x].state
    /\ \A a \in Slots :
          Dispatched(a) => (pc = "found" /\ a = NextP /\ Process[a].state = "READY")

C13_DispatchSelects == []C13_SkippedNotReady /\ [][C13_DispatchStep]_vars

\* C13 witness: with interrupts still disabled Dispatch has skipped every
\* other slot, none of them READY, and stopped at the last one.
C13_Witness ==
    /\ pc = "found"
    /\ ~IntrEnabled
    /\ i = MAXTHREAD - 1
    /\ Process[NextP].state = "READY"
    /\ \E x \in Slots : Process[x].state = "SUSPENDED"

\* C14: Task_Suspend(p) on a target that is the caller itself (RUNNING),
\* SLEEPING or SUSPENDED sets SUSPEND_NONRUNNING_TASK_ERR; Task_Resume(p) on a
\* target that is READY, RUNNING or SLEEPING sets RESUME_NONSUSPENDED_TASK_ERR;
\* in both cases no slot changes state and no other slot's count changes.  A
\* task never suspends itself.
NothingChanged ==
    /\ \A x \in Slots : Process'[x].state = Process[x].state
    /\ \A x \in Slots \ {Cp} : Process'[x].request_arg = Process[x].request_arg

C14_RefusedStep ==
    /\ \A p \in PidArgs, b \in Slots :
         (p >= 1 /\ Process[b].pid = p) =>
            /\ (Task_Suspend(p) /\ Process[b].state \in {"RUNNING", "SLEEPING", "SUSPENDED"}) =>
                  (err' = "SUSPEND_NONRUNNING_TASK_ERR" /\ NothingChanged)
            /\ (Task_Resume(p) /\ Process[b].state \in {"READY", "RUNNING", "SLEEPING"}) =>
                  (err' = "RESUME_NONSUSPENDED_TASK_ERR" /\ NothingChanged)
    /\ \A p \in PidArgs :
         (Task_Suspend(p) \/ Task_Resume(p)) => Process'[Cp].state = "RUNNING"

C14_SuspendResumeRefused == [][C14_RefusedStep]_vars

\* C14 witness: the running task has just asked to suspend itself and was
\* refused, while another task sleeps.
C14_Witness ==
    /\ pc = "task"
    /\ err = "SUSPEND_NONRUNNING_TASK_ERR"
    /\ Process[Cp].pid = Process[Cp].request_arg
    /\ Process[Cp].state = "RUNNING"
    /\ \E y \in Slots : Process[y].state = "SLEEPING"

\* A step that writes shared kernel state, and a step whose code begins by
\* disabling interrupts: an API call of the running task (os.c:368, 402, 415,
\* 431, 446, 461) or the load of Dispatch (os.c:100).
KernelStateWritten ==
    <<Process, Cp, NextP, Tasks, last_PID, err>>' # <<Process, Cp, NextP, Tasks, last_PID, err>>

DisablesFirst == pc \in {"task", "found"}

\* C15: with the kernel active every write to shared kernel state (slot
\* fields, Cp, NextP, Tasks, last_PID, err) made outside the tick ISR is made
\* with interrupts disabled; after enabling them for its idle search the
\* dispatcher disables them before its next write.
C15_WritesWithInterruptsOff ==
    [][(KernelActive /\ ~Tick /\ KernelStateWritten) =>
          (~IntrEnabled \/ DisablesFirst)]_vars

\* C16: a tick-ISR invocation changes only request_arg and state of the slots
\* that are SLEEPING when it runs and leaves every other slot, Cp, NextP,
\* Tasks, last_PID and err as they were; so the slot Dispatch found READY is
\* READY when Dispatch marks it RUNNING, however ticks interleave.
C16_FoundIsReady ==
    (pc = "found") => Process[NextP].state = "READY"

C16_TickStep ==
    Tick =>
       /\ UNCHANGED <<Cp, NextP, Tasks, last_PID, err>>
       /\ \A x \in Slots :
            IF Process[x].state = "SLEEPING"
            THEN /\ Process'[x].state \in {"SLEEPING", "READY"}
                 /\ [Process'[x] EXCEPT !.state = "SLEEPING",
                                        !.request_arg = Process[x].request_arg]
                       = Process[x]
            ELSE Process'[x] = Process[x]

C16_TickFrame == []C16_FoundIsReady /\ [][C16_TickStep]_vars

\* C16 witness: Dispatch has found a READY slot during its idle search, with
\* interrupts enabled, while a sleeper that has already seen a tick is still
\* counted down by the ISR.
C16_Witness ==
    /\ pc = "found"
    /\ IntrEnabled
    /\ \E x \in Slots : Process[x].state = "SLEEPING" /\ slept[x] >= 1

\* C18: in every reachable state Tasks equals last_PID and the number of
\* successful creations so far, is at least the number of non-DEAD slots and
\* at most MAXTHREAD; so a creation that passes the Tasks == MAXTHREAD test
\* finds a DEAD slot below MAXTHREAD and writes inside the table.
C18_TasksCountsCreations ==
    /\ Tasks = last_PID
    /\ Tasks = created
    /\ Tasks >= Cardinality(Live)
    /\ Tasks <= MAXTHREAD
    /\ (Tasks # MAXTHREAD) => (FirstDead(Process) \in Slots)

\* C18 witness: the last creation the counter admits has been made into the
\* highest slot, after an earlier task terminated.
C18_Witness ==
    /\ Tasks = MAXTHREAD
    /\ Process[MAXTHREAD - 1].pid = MAXTHREAD
    /\ Cardinality(Live) < MAXTHREAD
    /\ pc = "create_ret"

\* C19: every change of a slot's state is DEAD to READY by a creation, READY
\* to RUNNING by Dispatch, RUNNING to READY by the caller's yield, RUNNING to
\* SLEEPING by its sleep, RUNNING to DEAD by its termination, READY to
\* SUSPENDED by another task's Suspend, SUSPENDED to READY by a Resume, or
\* SLEEPING to READY by the tick ISR.
AllowedChange(x) ==
    LET from == Process[x].state
        to   == Process'[x].state
    IN  CASE from = "DEAD" /\ to = "READY" ->
                \E inp \in CreateInputs : CreateStep(inp)
          [] from = "READY" /\ to = "RUNNING" -> DispatchLoad /\ x = NextP
          [] from = "RUNNING" /\ to = "READY" -> Task_Yield /\ x = Cp
          [] from = "RUNNING" /\ to = "SLEEPING" ->
                x = Cp /\ \E t \in SleepArgs : Task_Sleep(t)
          [] from = "RUNNING" /\ to = "DEAD" -> Task_Terminate /\ x = Cp
          [] from = "READY" /\ to = "SUSPENDED" ->
                x # Cp /\ \E p \in PidArgs : Task_Suspend(p)
          [] from = "SUSPENDED" /\ to = "READY" ->
                \E p \in PidArgs : Task_Resume(p)
          [] from = "SLEEPING" /\ to = "READY" -> Tick
          [] OTHER -> FALSE

C19_StateTransitions ==
    [][\A x \in Slots :
         Process'[x].state # Process[x].state => AllowedChange(x)]_vars

\* C19 witness: one task has terminated, one has been suspended by another,
\* and a third runs.
C19_Witness ==
    /\ pc = "task"
    /\ \E x \in Slots : Process[x].state = "DEAD" /\ Process[x].request = "TERMINATE"
    /\ \E y \in Slots : Process[y].state = "SUSPENDED"

\* C20: with the kernel active and every slot DEAD or SUSPENDED, Dispatch
\* never completes and no slot's state, Tasks or last_PID changes again,
\* whatever ticks occur; the state is entered when the last runnable task
\* terminates after suspending the others.
NothingRunnable ==
    /\ KernelActive
    /\ \A x \in Slots : Process[x].state \in {"DEAD", "SUSPENDED"}

C20_Searching == NothingRunnable => pc = "dispatch"

C20_StaysStep ==
    NothingRunnable =>
        /\ NothingRunnable'
        /\ pc' = "dispatch"
        /\ Cp' = Cp
        /\ Tasks' = Tasks
        /\ last_PID' = last_PID
        /\ \A x \in Slots : Process'[x].state = Process[x].state

C20_EnteredStep ==
    (~NothingRunnable /\ NothingRunnable') =>
        /\ Task_Terminate
        /\ \A x \in Slots \ {Cp} : Process[x].state \in {"DEAD", "SUSPENDED"}

C20_Absorbing ==
    []C20_Searching /\ [][C20_StaysStep /\ C20_EnteredStep]_vars

\* C20 witness: the last runnable task has terminated after suspending
\* another, and the idle search has enabled interrupts.
C20_Witness ==
    /\ NothingRunnable
    /\ IntrEnabled
    /\ Process[Cp].state = "DEAD"
    /\ Process[Cp].request = "TERMINATE"
    /\ \E y \in Slots : Process[y].state = "SUSPENDED"

\* C17: if Dispatch is searching while no slot is READY and some slot is
\* SLEEPING, and ticks keep occurring, then the search enables interrupts
\* after a full sweep, the tick ISR makes a sleeper READY, and Dispatch
\* completes with a task RUNNING.
IdleSearch ==
    /\ pc = "dispatch"
    /\ \A x \in Slots : Process[x].state # "READY"
    /\ \E x \in Slots : Process[x].state = "SLEEPING"

SweptAndOpen == IdleSearch /\ IntrEnabled /\ i > MAXTHREAD

SleeperWoken ==
    /\ pc = "dispatch"
    /\ IntrEnabled
    /\ \E x \in Slots :
         Process[x].state = "READY" /\ Process[x].request = "SLEEP"

\* Until the sweep has enabled interrupts the search stays idle, and it
\* stops being idle only by a tick that wakes a sleeper.
C17_IdleStep ==
    /\ (IdleSearch /\ ~IntrEnabled) =>
          (IdleSearch' /\ (IntrEnabled' => SweptAndOpen'))
    /\ (IdleSearch /\ ~IdleSearch') => (Tick /\ SleeperWoken')

C17_IdleSearchEnds ==
    /\ [][C17_IdleStep]_vars
    /\ IdleSearch ~> (pc = "task" /\ Running = {Cp})

\* C17 witness: after a sweep that enabled interrupts the search has reached
\* a slot the tick ISR woke from its sleep.
C17_Witness ==
    /\ pc = "found"
    /\ IntrEnabled
    /\ i > MAXTHREAD
    /\ Process[NextP].state = "READY"
    /\ Process[NextP].request = "SLEEP"
    /\ Process[NextP].request_arg = 0

====
